---- MODULE Spec2Model ----
(***************************************************************************)
(* The Button component of carbon-components-react (src/unnamed/part_000): *)
(* host-element selection, class composition, prop validation, and the     *)
(* tooltip interaction state of icon-only buttons (hover, focus, Escape,   *)
(* the 100 ms hide timer, the document-level keydown listener and the      *)
(* imperative "close other tooltips" DOM mutation).                        *)
(*                                                                         *)
(* JavaScript values that may be undefined or null are encoded as strings: *)
(* "undefined", "null", "true", "false", "" and ordinary strings.          *)
(***************************************************************************)
EXTENDS Integers, Sequences, FiniteSets, TLC

\* The button instances on the page (two icon-only candidates).
Instances == {"A", "B"}

\* No instance (pointer over no button, no button focused).
None == "none"

\* Most timers one instance may have pending at once (guards handleMouseLeave).
MaxTimers == 3

VARIABLES
    mounted,                \* [Instances -> BOOLEAN]
    props,                  \* [Instances -> [hasIconOnly, isSelected]]
    allowTooltipVisibility, \* useState(true)
    isHovered,              \* useState(false)
    isFocused,              \* useState(false)
    tooltipTimeout,         \* useRef(null): 0 is null, else a timer id
    timers,                 \* pending setTimeout callbacks
    classList,              \* class tokens on each instance's DOM node
    listeners,              \* document keydown listeners registered per instance
    pointerAt,              \* the instance the pointer is over, or None
    activeElement,          \* the instance with DOM focus, or None
    last,                   \* the event handled by the last step
    renderProps,            \* the configuration handed to one render
    element,                \* what that render returned
    propTypesResult         \* what prop validation returned

vars == <<mounted, props, allowTooltipVisibility, isHovered, isFocused,
          tooltipTimeout, timers, classList, listeners, pointerAt,
          activeElement, last, renderProps, element, propTypesResult>>

interactionVars == <<mounted, props, allowTooltipVisibility, isHovered,
                     isFocused, tooltipTimeout, timers, classList, listeners,
                     pointerAt, activeElement, last>>

renderVars == <<renderProps, element, propTypesResult>>

----------------------------------------------------------------------------
(* JavaScript truthiness of an encoded value. *)
Truthy(v) == v \notin {"undefined", "null", "", "false"}

(* Right-biased merge of two attribute records: { ...f, ...g }. *)
Spread(f, g) ==
    [k \in (DOMAIN f) \cup (DOMAIN g) |-> IF k \in DOMAIN g THEN g[k] ELSE f[k]]

(* Button.defaultProps. *)
defaultProps ==
    [tabIndex |-> 0, type |-> "button", disabled |-> FALSE, kind |-> "primary",
     size |-> "default", tooltipAlignment |-> "center", tooltipPosition |-> "top"]

(* The configurations one render is checked on. *)
PropsSpace ==
    [as : {"undefined", "a", "CustomLink"},
     href : {"undefined", "", "#"},
     disabled : BOOLEAN,
     hasIconOnly : BOOLEAN,
     kind : {"primary", "ghost"},
     isSelected : {"undefined", "false", "true"},
     type : {"button", "submit"},
     renderIcon : {"undefined", "Icon"},
     children : {"undefined", "text"},
     iconDescription : {"undefined", "", "desc"},
     size : {defaultProps.size},
     small : {"undefined"},
     className : {"undefined"},
     tabIndex : {defaultProps.tabIndex},
     tooltipAlignment : {defaultProps.tooltipAlignment},
     tooltipPosition : {defaultProps.tooltipPosition}]

(* classNames(className, {...}): the set of class tokens whose gate is truthy. *)
buttonClasses(p, allow, hovered) ==
    (IF Truthy(p.className) THEN {p.className} ELSE {})
    \cup {"btn"}
    \cup (IF p.size = "field" THEN {"btn--field"} ELSE {})
    \cup (IF p.size = "small" \/ p.size = "sm" \/ Truthy(p.small)
          THEN {"btn--sm"} ELSE {})
    \cup (IF p.size = "lg" THEN {"btn--lg"} ELSE {})
    \cup (IF p.size = "xl" THEN {"btn--xl"} ELSE {})
    \cup (IF Truthy(p.kind) THEN {"btn--" \o p.kind} ELSE {})
    \cup (IF p.disabled THEN {"btn--disabled"} ELSE {})
    \cup (IF p.hasIconOnly /\ ~allow THEN {"tooltip--hidden"} ELSE {})
    \cup (IF hovered THEN {"tooltip--visible"} ELSE {})
    \cup (IF p.hasIconOnly THEN {"btn--icon-only"} ELSE {})
    \cup (IF p.hasIconOnly /\ p.isSelected = "true" /\ p.kind = "ghost"
          THEN {"btn--selected"} ELSE {})
    \cup (IF p.hasIconOnly THEN {"tooltip__trigger"} ELSE {})
    \cup (IF p.hasIconOnly THEN {"tooltip--a11y"} ELSE {})
    \cup (IF p.hasIconOnly /\ Truthy(p.tooltipPosition)
          THEN {"tooltip--" \o p.tooltipPosition} ELSE {})
    \cup (IF p.hasIconOnly /\ Truthy(p.tooltipAlignment)
          THEN {"tooltip--align-" \o p.tooltipAlignment} ELSE {})

(* Mutation of otherProps: aria-pressed follows isSelected for every kind. *)
otherProps_pressedForAnyKind(p) ==
    [disabled |-> p.disabled,
     type |-> p.type,
     ariaPressed |-> IF p.hasIconOnly THEN p.isSelected ELSE "null"]

(* otherProps as first assigned: disabled, type and aria-pressed. *)
otherProps(p) ==
    [disabled |-> p.disabled,
     type |-> p.type,
     ariaPressed |-> IF p.hasIconOnly /\ p.kind = "ghost"
                     THEN p.isSelected ELSE "null"]

(* anchorProps. *)
anchorProps(p) == [href |-> p.href]

(* Mutation of Button: a disabled button with href still renders an anchor. *)
Button_anchorWhenDisabled(p, allow, hovered) ==
    LET commonProps == [tabIndex |-> p.tabIndex,
                        className |-> buttonClasses(p, allow, hovered)]
    IN  IF Truthy(p.as)
        THEN [component |-> p.as,
              attrs |-> Spread(commonProps, Spread(otherProps(p), anchorProps(p)))]
        ELSE IF Truthy(p.href)
        THEN [component |-> "a",
              attrs |-> Spread(commonProps, anchorProps(p))]
        ELSE [component |-> "button",
              attrs |-> Spread(commonProps, otherProps(p))]

(* Mutation of Button: href is tested before the as override. *)
Button_hrefBeforeAs(p, allow, hovered) ==
    LET commonProps == [tabIndex |-> p.tabIndex,
                        className |-> buttonClasses(p, allow, hovered)]
    IN  IF Truthy(p.href) /\ ~p.disabled
        THEN [component |-> "a",
              attrs |-> Spread(commonProps, anchorProps(p))]
        ELSE IF Truthy(p.as)
        THEN [component |-> p.as,
              attrs |-> Spread(commonProps, Spread(otherProps(p), anchorProps(p)))]
        ELSE [component |-> "button",
              attrs |-> Spread(commonProps, otherProps(p))]

(* The host element and the attributes it receives besides commonProps. *)
Button(p, allow, hovered) ==
    LET commonProps == [tabIndex |-> p.tabIndex,
                        className |-> buttonClasses(p, allow, hovered)]
    IN  IF Truthy(p.as)
        THEN [component |-> p.as,
              attrs |-> Spread(commonProps, Spread(otherProps(p), anchorProps(p)))]
        ELSE IF Truthy(p.href) /\ ~p.disabled
        THEN [component |-> "a",
              attrs |-> Spread(commonProps, anchorProps(p))]
        ELSE [component |-> "button",
              attrs |-> Spread(commonProps, otherProps(p))]

(* Mutation of the validator: children do not excuse a missing description. *)
iconDescriptionValidator_ignoresChildren(p) ==
    IF Truthy(p.renderIcon) /\ ~Truthy(p.iconDescription)
    THEN "Error" ELSE "undefined"

(* Button.propTypes.iconDescription: an Error or undefined. *)
iconDescriptionValidator(p) ==
    IF Truthy(p.renderIcon) /\ ~Truthy(p.children) /\ ~Truthy(p.iconDescription)
    THEN "Error" ELSE "undefined"

NoElement == [component |-> "none"]

----------------------------------------------------------------------------
(* One render of one configuration: validation and render are independent. *)

InitRender ==
    /\ renderProps \in PropsSpace
    /\ element = NoElement
    /\ propTypesResult = "unchecked"

CheckPropTypes ==
    /\ propTypesResult' = iconDescriptionValidator(renderProps)
    /\ UNCHANGED <<renderProps, element>>
    /\ UNCHANGED interactionVars

Render ==
    /\ element' = Button(renderProps, TRUE, FALSE)
    /\ UNCHANGED <<renderProps, propTypesResult>>
    /\ UNCHANGED interactionVars

----------------------------------------------------------------------------
(* The page: instances mounting, re-rendering, handling events, unmounting. *)

(* The full configuration of a mounted instance (kind "ghost" throughout). *)
PropsOf(pr) ==
    [as |-> "undefined", href |-> "undefined", disabled |-> defaultProps.disabled,
     hasIconOnly |-> pr.hasIconOnly, kind |-> "ghost",
     isSelected |-> IF pr.isSelected THEN "true" ELSE "false",
     type |-> defaultProps.type, renderIcon |-> "Icon", children |-> "undefined",
     iconDescription |-> "desc", size |-> defaultProps.size, small |-> "undefined",
     className |-> "undefined", tabIndex |-> defaultProps.tabIndex,
     tooltipAlignment |-> defaultProps.tooltipAlignment,
     tooltipPosition |-> defaultProps.tooltipPosition]

(* The configurations of the instances on the page; isSelected is drawn for *)
(* icon-only buttons, the only ones whose rendering reads it.               *)
InstanceProps ==
    {pr \in [hasIconOnly : BOOLEAN, isSelected : BOOLEAN] :
        pr.isSelected => pr.hasIconOnly}

(* toggleClass(element, name, add): add the token when add, else remove it. *)
toggleClass(tokens, name, add) ==
    IF add THEN tokens \cup {name} ELSE tokens \ {name}

(* closeTooltips(evt): every node carrying tooltip--a11y gets tooltip--hidden *)
(* toggled on unless it is evt.currentTarget, where it is toggled off.        *)
closeTooltips(cl, currentTarget) ==
    [n \in Instances |->
        IF "tooltip--a11y" \in cl[n]
        THEN toggleClass(cl[n], "tooltip--hidden", n # currentTarget)
        ELSE cl[n]]

(* React's commit of one instance: the DOM className is rewritten only when *)
(* the className prop differs from the one of the previous render.          *)
Commit(cl, i, prevClassName, nextClassName) ==
    IF prevClassName = nextClassName THEN cl
    ELSE [cl EXCEPT ![i] = nextClassName]

(* The className prop of instance i in the current state. *)
ClassName(i) ==
    buttonClasses(PropsOf(props[i]), allowTooltipVisibility[i], isHovered[i])

(* matches(event, [keys.Escape]). *)
matches(key, keyList) == key \in keyList

(* composeEventHandlers(fns): the handlers called for one event, in order. *)
composeEventHandlers(fns) == SelectSeq(fns, LAMBDA f : f # "undefined")

(* The handler lists handed to composeEventHandlers by React.createElement. *)
onMouseEnterHandlers(cb) == <<cb, "handleMouseEnter">>
onMouseLeaveHandlers(cb) == <<cb, "handleMouseLeave">>
(* Mutation of the onFocus list: the internal handler is registered first. *)
onFocusHandlers_internalFirst(cb) == <<"handleFocus", cb>>

onFocusHandlers(cb) == <<cb, "handleFocus">>
onBlurHandlers(cb) == <<cb, "handleBlur">>

Called(calls, f) == \E k \in 1..Len(calls) : calls[k] = f

(* A timer id is the instance that called setTimeout and a number; the    *)
(* number given out is the smallest one no pending timer of that instance *)
(* carries (the only holder of a fired or cleared id is the instance's    *)
(* own ref, which the new id overwrites).                                 *)
TimerIds == 1..MaxTimers
FreeIds(i) == {n \in TimerIds : \A t \in timers : ~(t.inst = i /\ t.id = n)}
NextId(i) == CHOOSE n \in FreeIds(i) : \A m \in FreeIds(i) : n <= m

(* clearTimeout(id): the pending timer of that id, if any, is dropped. *)
clearTimeout(ts, i, id) == {t \in ts : ~(t.inst = i /\ t.id = id)}

(* The record of one handled event: the callback the caller supplied for   *)
(* it, which handlers ran, in order, the node the event targeted, and      *)
(* whether the instance the handlers belong to was mounted when they ran.  *)
Event(op, i, cb, calls) ==
    [op |-> op, inst |-> i, supplied |-> cb, calls |-> calls,
     target |-> "button", live |-> TRUE]

InitPage ==
    /\ mounted = [i \in Instances |-> FALSE]
    /\ props = [i \in Instances |-> [hasIconOnly |-> FALSE, isSelected |-> FALSE]]
    /\ allowTooltipVisibility = [i \in Instances |-> TRUE]
    /\ isHovered = [i \in Instances |-> FALSE]
    /\ isFocused = [i \in Instances |-> FALSE]
    /\ tooltipTimeout = [i \in Instances |-> 0]
    /\ timers = {}
    /\ classList = [i \in Instances |-> {}]
    /\ listeners = [i \in Instances |-> 0]
    /\ pointerAt = None
    /\ activeElement = None
    /\ last = Event("init", None, "undefined", <<>>)

(* First render and commit of an instance; the effect adds the listener. *)
Mount(i, pr) ==
    /\ UNCHANGED renderVars
    /\ ~mounted[i]
    /\ mounted' = [mounted EXCEPT ![i] = TRUE]
    /\ props' = [props EXCEPT ![i] = pr]
    /\ allowTooltipVisibility' = [allowTooltipVisibility EXCEPT ![i] = TRUE]
    /\ isHovered' = [isHovered EXCEPT ![i] = FALSE]
    /\ isFocused' = [isFocused EXCEPT ![i] = FALSE]
    /\ tooltipTimeout' = [tooltipTimeout EXCEPT ![i] = 0]
    /\ classList' = [classList EXCEPT ![i] = buttonClasses(PropsOf(pr), TRUE, FALSE)]
    /\ listeners' = [listeners EXCEPT ![i] = @ + 1]
    /\ last' = Event("mount", i, "undefined", <<>>)
    /\ UNCHANGED <<timers, pointerAt, activeElement>>

(* Mutation of the cleanup: the listener stays registered. *)
useEffectCleanup_keepsListener(ls, i) == ls

(* The effect's cleanup: removeEventListener of this instance's listener. *)
useEffectCleanup(ls, i) == [ls EXCEPT ![i] = IF @ > 0 THEN @ - 1 ELSE 0]

(* Unmount: the node leaves the DOM and the cleanup runs.  Pending timers *)
(* are not cleared; they now belong to an unmounted instance, and no ref  *)
(* holds their ids any more (id 0).                                       *)
Unmount(i) ==
    /\ UNCHANGED renderVars
    /\ mounted[i]
    /\ mounted' = [mounted EXCEPT ![i] = FALSE]
    /\ props' = [props EXCEPT ![i] = [hasIconOnly |-> FALSE, isSelected |-> FALSE]]
    /\ allowTooltipVisibility' = [allowTooltipVisibility EXCEPT ![i] = TRUE]
    /\ isHovered' = [isHovered EXCEPT ![i] = FALSE]
    /\ isFocused' = [isFocused EXCEPT ![i] = FALSE]
    /\ tooltipTimeout' = [tooltipTimeout EXCEPT ![i] = 0]
    /\ timers' = {IF t.inst = i THEN [id |-> 0, inst |-> i, live |-> FALSE] ELSE t :
                     t \in timers}
    /\ classList' = [classList EXCEPT ![i] = {}]
    /\ listeners' = useEffectCleanup(listeners, i)
    /\ pointerAt' = IF pointerAt = i THEN None ELSE pointerAt
    /\ activeElement' = IF activeElement = i THEN None ELSE activeElement
    /\ last' = Event("unmount", i, "undefined", <<>>)

(* The parent renders the instance again, with isSelected as it chooses. *)
Rerender(i, sel) ==
    /\ UNCHANGED renderVars
    /\ mounted[i]
    /\ [props[i] EXCEPT !.isSelected = sel] \in InstanceProps
    /\ props' = [props EXCEPT ![i].isSelected = sel]
    /\ classList' = Commit(classList, i, ClassName(i),
                           buttonClasses(PropsOf(props'[i]),
                                         allowTooltipVisibility[i], isHovered[i]))
    /\ last' = Event("render", i, "undefined", <<>>)
    /\ UNCHANGED <<mounted, allowTooltipVisibility, isHovered, isFocused,
                   tooltipTimeout, timers, listeners, pointerAt, activeElement>>

stateVars == <<allowTooltipVisibility, isHovered, isFocused, tooltipTimeout,
               timers, classList>>

(* handleFocus: closeTooltips, then the three state updates and the commit. *)
handleFocus(i) ==
    /\ isHovered' = [isHovered EXCEPT ![i] = ~isHovered[i]]
    /\ isFocused' = [isFocused EXCEPT ![i] = TRUE]
    /\ allowTooltipVisibility' = [allowTooltipVisibility EXCEPT ![i] = TRUE]
    /\ classList' = Commit(closeTooltips(classList, i), i, ClassName(i),
                           buttonClasses(PropsOf(props[i]), TRUE, ~isHovered[i]))
    /\ UNCHANGED <<tooltipTimeout, timers>>

(* Mutation of handleBlur: isFocused is left as it was. *)
handleBlur_keepsFocused(i) ==
    /\ isHovered' = [isHovered EXCEPT ![i] = FALSE]
    /\ allowTooltipVisibility' = [allowTooltipVisibility EXCEPT ![i] = FALSE]
    /\ classList' = Commit(classList, i, ClassName(i),
                           buttonClasses(PropsOf(props[i]), FALSE, FALSE))
    /\ UNCHANGED <<isFocused, tooltipTimeout, timers>>

(* Mutation of handleBlur: isHovered is left as it was. *)
handleBlur_keepsHovered(i) ==
    /\ isFocused' = [isFocused EXCEPT ![i] = FALSE]
    /\ allowTooltipVisibility' = [allowTooltipVisibility EXCEPT ![i] = FALSE]
    /\ classList' = Commit(classList, i, ClassName(i),
                           buttonClasses(PropsOf(props[i]), FALSE, isHovered[i]))
    /\ UNCHANGED <<isHovered, tooltipTimeout, timers>>

(* handleBlur. *)
handleBlur(i) ==
    /\ isHovered' = [isHovered EXCEPT ![i] = FALSE]
    /\ isFocused' = [isFocused EXCEPT ![i] = FALSE]
    /\ allowTooltipVisibility' = [allowTooltipVisibility EXCEPT ![i] = FALSE]
    /\ classList' = Commit(classList, i, ClassName(i),
                           buttonClasses(PropsOf(props[i]), FALSE, FALSE))
    /\ UNCHANGED <<tooltipTimeout, timers>>

(* Mutation of handleMouseEnter: the pending timeout is not cleared. *)
handleMouseEnter_keepsTimer(i, onTooltip) ==
    /\ isHovered' = [isHovered EXCEPT ![i] = TRUE]
    /\ allowTooltipVisibility' = [allowTooltipVisibility EXCEPT ![i] = TRUE]
    /\ classList' = Commit(IF onTooltip THEN classList
                           ELSE closeTooltips(classList, i),
                           i, ClassName(i),
                           buttonClasses(PropsOf(props[i]), TRUE, TRUE))
    /\ UNCHANGED <<isFocused, tooltipTimeout, timers>>

(* Mutation of handleMouseEnter: closeTooltips runs whatever the target. *)
handleMouseEnter_alwaysCloses(i, onTooltip) ==
    /\ isHovered' = [isHovered EXCEPT ![i] = TRUE]
    /\ timers' = IF tooltipTimeout[i] # 0
                 THEN clearTimeout(timers, i, tooltipTimeout[i]) ELSE timers
    /\ allowTooltipVisibility' = [allowTooltipVisibility EXCEPT ![i] = TRUE]
    /\ classList' = Commit(closeTooltips(classList, i), i, ClassName(i),
                           buttonClasses(PropsOf(props[i]), TRUE, TRUE))
    /\ UNCHANGED <<isFocused, tooltipTimeout>>

(* handleMouseEnter: onTooltip is evt.target === tooltipRef.current. *)
handleMouseEnter(i, onTooltip) ==
    /\ isHovered' = [isHovered EXCEPT ![i] = TRUE]
    /\ timers' = IF tooltipTimeout[i] # 0
                 THEN clearTimeout(timers, i, tooltipTimeout[i]) ELSE timers
    /\ allowTooltipVisibility' = [allowTooltipVisibility EXCEPT ![i] = TRUE]
    /\ classList' = Commit(IF onTooltip THEN classList
                           ELSE closeTooltips(classList, i),
                           i, ClassName(i),
                           buttonClasses(PropsOf(props[i]), TRUE, TRUE))
    /\ UNCHANGED <<isFocused, tooltipTimeout>>

(* handleMouseLeave: schedules the hide unless the instance is focused. *)
handleMouseLeave(i) ==
    IF ~isFocused[i]
    THEN /\ FreeIds(i) # {}
         /\ timers' = timers \cup {[id |-> NextId(i), inst |-> i, live |-> TRUE]}
         /\ tooltipTimeout' = [tooltipTimeout EXCEPT ![i] = NextId(i)]
         /\ UNCHANGED <<allowTooltipVisibility, isHovered, isFocused, classList>>
    ELSE UNCHANGED stateVars

(* The assistive text is a hidden-by-default node: the pointer can be over *)
(* it only while the tooltip is displayed, that is while the button is not *)
(* tooltip--hidden and is tooltip--visible, focused or under the pointer.  *)
Displayed(i) ==
    /\ mounted[i]
    /\ props[i].hasIconOnly
    /\ "tooltip--hidden" \notin classList[i]
    /\ \/ "tooltip--visible" \in classList[i]
       \/ activeElement = i
       \/ pointerAt = i

(* The pointer enters the button from outside it; tgt is the node entered. *)
MouseEnter(i, tgt, cb) ==
    /\ UNCHANGED renderVars
    /\ mounted[i]
    /\ pointerAt = None
    /\ tgt = "tooltip" => Displayed(i)
    /\ LET calls == composeEventHandlers(onMouseEnterHandlers(cb))
       IN  /\ last' = [Event("mouseenter", i, cb, calls) EXCEPT !.target = tgt]
           /\ IF Called(calls, "handleMouseEnter")
              THEN handleMouseEnter(i, tgt = "tooltip")
              ELSE UNCHANGED stateVars
    /\ pointerAt' = i
    /\ UNCHANGED <<mounted, props, listeners, activeElement>>

(* The pointer moves from the button onto its assistive-text node, whose *)
(* onMouseEnter is handleMouseEnter itself.                              *)
MouseEnterAssistiveText(i) ==
    /\ UNCHANGED renderVars
    /\ mounted[i]
    /\ pointerAt = i
    /\ Displayed(i)
    /\ handleMouseEnter(i, TRUE)
    /\ last' = [Event("mouseenter-text", i, "undefined", <<"handleMouseEnter">>)
                EXCEPT !.target = "tooltip"]
    /\ UNCHANGED <<mounted, props, listeners, pointerAt, activeElement>>

(* The pointer leaves the button. *)
MouseLeave(i, cb) ==
    /\ UNCHANGED renderVars
    /\ mounted[i]
    /\ pointerAt = i
    /\ LET calls == composeEventHandlers(onMouseLeaveHandlers(cb))
       IN  /\ last' = Event("mouseleave", i, cb, calls)
           /\ IF Called(calls, "handleMouseLeave")
              THEN handleMouseLeave(i)
              ELSE UNCHANGED stateVars
    /\ pointerAt' = None
    /\ UNCHANGED <<mounted, props, listeners, activeElement>>

(* The button receives focus (no other button holds it). *)
Focus(i, cb) ==
    /\ UNCHANGED renderVars
    /\ mounted[i]
    /\ activeElement = None
    /\ LET calls == composeEventHandlers(onFocusHandlers(cb))
       IN  /\ last' = Event("focus", i, cb, calls)
           /\ IF Called(calls, "handleFocus")
              THEN handleFocus(i)
              ELSE UNCHANGED stateVars
    /\ activeElement' = i
    /\ UNCHANGED <<mounted, props, listeners, pointerAt>>

(* The button loses focus. *)
Blur(i, cb) ==
    /\ UNCHANGED renderVars
    /\ mounted[i]
    /\ activeElement = i
    /\ LET calls == composeEventHandlers(onBlurHandlers(cb))
       IN  /\ last' = Event("blur", i, cb, calls)
           /\ IF Called(calls, "handleBlur")
              THEN handleBlur(i)
              ELSE UNCHANGED stateVars
    /\ activeElement' = None
    /\ UNCHANGED <<mounted, props, listeners, pointerAt>>

(* The instances whose handleEscKeyDown is registered on the document. *)
Listening == {i \in Instances : mounted[i] /\ listeners[i] > 0}

(* Mutation of handleEscKeyDown: a focused instance keeps its tooltip. *)
handleEscKeyDown_skipsFocused(key) ==
    LET hit == IF matches(key, {"Escape"})
               THEN {i \in Listening : ~isFocused[i]} ELSE {}
    IN  /\ allowTooltipVisibility' =
               [i \in Instances |-> IF i \in hit THEN FALSE
                                    ELSE allowTooltipVisibility[i]]
        /\ isHovered' = [i \in Instances |-> IF i \in hit THEN FALSE
                                             ELSE isHovered[i]]
        /\ classList' =
               [i \in Instances |->
                   IF i \in hit
                   THEN Commit(classList, i, ClassName(i),
                               buttonClasses(PropsOf(props[i]), FALSE, FALSE))[i]
                   ELSE classList[i]]
        /\ UNCHANGED <<isFocused, tooltipTimeout, timers>>

(* handleEscKeyDown of every registered listener, then the commits. *)
handleEscKeyDown(key) ==
    LET hit == IF matches(key, {"Escape"}) THEN Listening ELSE {}
    IN  /\ allowTooltipVisibility' =
               [i \in Instances |-> IF i \in hit THEN FALSE
                                    ELSE allowTooltipVisibility[i]]
        /\ isHovered' = [i \in Instances |-> IF i \in hit THEN FALSE
                                             ELSE isHovered[i]]
        /\ classList' =
               [i \in Instances |->
                   IF i \in hit
                   THEN Commit(classList, i, ClassName(i),
                               buttonClasses(PropsOf(props[i]), FALSE, FALSE))[i]
                   ELSE classList[i]]
        /\ UNCHANGED <<isFocused, tooltipTimeout, timers>>

(* A keydown event reaches the document. *)
KeyDown(key) ==
    /\ UNCHANGED renderVars
    /\ handleEscKeyDown(key)
    /\ last' = Event("keydown-" \o key, None, "undefined", <<>>)
    /\ UNCHANGED <<mounted, props, listeners, pointerAt, activeElement>>

(* Mutation of TimerFire: the callback updates no state. *)
TimerFire_hidesNothing(t) ==
    /\ UNCHANGED renderVars
    /\ t \in timers
    /\ timers' = timers \ {t}
    /\ last' = [Event("timeout", t.inst, "undefined",
                      <<"setAllowTooltipVisibility", "setIsHovered">>)
                EXCEPT !.live = t.live]
    /\ UNCHANGED <<mounted, props, allowTooltipVisibility, isHovered, classList,
                   isFocused, tooltipTimeout, listeners, pointerAt, activeElement>>

(* A pending timeout fires: its callback calls the two setters.  React *)
(* drops state updates of an instance that is no longer mounted.       *)
TimerFire(t) ==
    /\ UNCHANGED renderVars
    /\ t \in timers
    /\ timers' = timers \ {t}
    /\ IF t.live
       THEN /\ allowTooltipVisibility' =
                   [allowTooltipVisibility EXCEPT ![t.inst] = FALSE]
            /\ isHovered' = [isHovered EXCEPT ![t.inst] = FALSE]
            /\ classList' = Commit(classList, t.inst, ClassName(t.inst),
                                   buttonClasses(PropsOf(props[t.inst]),
                                                 FALSE, FALSE))
       ELSE UNCHANGED <<allowTooltipVisibility, isHovered, classList>>
    /\ last' = [Event("timeout", t.inst, "undefined",
                      <<"setAllowTooltipVisibility", "setIsHovered">>)
                EXCEPT !.live = t.live]
    /\ UNCHANGED <<mounted, props, isFocused, tooltipTimeout, listeners,
                   pointerAt, activeElement>>

Callbacks(name) == {"undefined", name}

(* Every timer record there can be. *)
TimerSpace == [id : {0} \cup TimerIds, inst : Instances, live : BOOLEAN]

NextPage ==
    \/ \E i \in Instances, pr \in InstanceProps : Mount(i, pr)
    \/ \E i \in Instances : Unmount(i)
    \/ \E i \in Instances, sel \in BOOLEAN : Rerender(i, sel)
    \/ \E i \in Instances, tgt \in {"button", "tooltip"},
          cb \in Callbacks("onMouseEnter") : MouseEnter(i, tgt, cb)
    \/ \E i \in Instances : MouseEnterAssistiveText(i)
    \/ \E i \in Instances, cb \in Callbacks("onMouseLeave") : MouseLeave(i, cb)
    \/ \E i \in Instances, cb \in Callbacks("onFocus") : Focus(i, cb)
    \/ \E i \in Instances, cb \in Callbacks("onBlur") : Blur(i, cb)
    \/ \E key \in {"Escape", "Enter"} : KeyDown(key)
    \/ \E t \in TimerSpace : TimerFire(t)

Init ==
    /\ InitPage
    /\ renderProps \in {p \in PropsSpace : p = PropsOf([hasIconOnly |-> FALSE,
                                                        isSelected |-> FALSE])}
    /\ element = NoElement
    /\ propTypesResult = "unchecked"

Next == NextPage

Spec == Init /\ [][Next]_vars

(* A pending timeout of the mounted instance i fires. *)
TimerFireOf(i) ==
    \E n \in TimerIds : TimerFire([id |-> n, inst |-> i, live |-> TRUE])

(* The browser runs the pending timeouts of a mounted instance once their *)
(* delay has elapsed.                                                     *)
TimerFairness == \A i \in Instances : WF_vars(TimerFireOf(i))

(* The page without the isSelected prop, which reaches only the selected *)
(* class token and aria-pressed and no timer, hover or focus state.      *)
UnselectedProps == {pr \in InstanceProps : ~pr.isSelected}

NextLive ==
    \/ \E i \in Instances, pr \in UnselectedProps : Mount(i, pr)
    \/ \E i \in Instances : Unmount(i)
    \/ \E i \in Instances : Rerender(i, FALSE)
    \/ \E i \in Instances, tgt \in {"button", "tooltip"},
          cb \in Callbacks("onMouseEnter") : MouseEnter(i, tgt, cb)
    \/ \E i \in Instances : MouseEnterAssistiveText(i)
    \/ \E i \in Instances, cb \in Callbacks("onMouseLeave") : MouseLeave(i, cb)
    \/ \E i \in Instances, cb \in Callbacks("onFocus") : Focus(i, cb)
    \/ \E i \in Instances, cb \in Callbacks("onBlur") : Blur(i, cb)
    \/ \E key \in {"Escape", "Enter"} : KeyDown(key)
    \/ \E t \in TimerSpace : TimerFire(t)

SpecLive == Init /\ [][NextLive]_vars /\ TimerFairness

(* One configuration validated and rendered, the page left empty. *)
NextRender == CheckPropTypes \/ Render

InitRenderSpec == InitRender /\ InitPage

SpecRender == InitRenderSpec /\ [][NextRender]_vars

----------------------------------------------------------------------------
(* Properties of one render (checked under SpecRender). *)

Rendered == element # NoElement

(* The value of an attribute of the rendered host, "absent" when not passed. *)
Attr(name) == IF name \in DOMAIN element.attrs THEN element.attrs[name] ELSE "absent"

(* The rendered host was passed attribute name with value v. *)
HasAttr(name, v) == name \in DOMAIN element.attrs /\ element.attrs[name] = v

(* The render took the anchor branch: href set, not disabled, no override. *)
AnchorBranch ==
    /\ ~Truthy(renderProps.as)
    /\ Truthy(renderProps.href)
    /\ ~renderProps.disabled

GhostIconOnly == renderProps.hasIconOnly /\ renderProps.kind = "ghost"

(* null, undefined and a missing attribute all render no attribute. *)
Unset(v) == IF v \in {"null", "undefined", "absent"} THEN "null" ELSE v

(* C2, as stated: with disabled=true and href set, whatever the other fields *)
(* (the as override included), the rendered host is not a hyperlink.         *)
C2_DisabledHrefNeverHyperlink ==
    (Rendered /\ renderProps.disabled /\ Truthy(renderProps.href))
        => element.component # "a"

(* C2, amended: with disabled=true, href set and no as override, the host is *)
(* a native button that carries no href; with an as override the host is     *)
(* that override, href included.                                             *)
C2_DisabledHrefWithoutOverrideIsButton ==
    (Rendered /\ renderProps.disabled /\ Truthy(renderProps.href))
        => IF Truthy(renderProps.as)
           THEN element.component = renderProps.as /\ Attr("href") = renderProps.href
           ELSE element.component = "button" /\ Attr("href") = "absent"

C2_Witness ==
    /\ Rendered
    /\ renderProps.disabled
    /\ renderProps.href = "#"
    /\ ~Truthy(renderProps.as)
    /\ element.component = "button"

(* C3: the host is the as override when one is supplied, and then receives   *)
(* href with the button attributes; otherwise an anchor carrying href when   *)
(* href is supplied and disabled is false; otherwise a native button         *)
(* carrying disabled and type.                                               *)
C3_HostSelectionPriority ==
    Rendered =>
        IF Truthy(renderProps.as)
        THEN /\ element.component = renderProps.as
             /\ HasAttr("href", renderProps.href)
             /\ HasAttr("disabled", renderProps.disabled)
             /\ HasAttr("type", renderProps.type)
             /\ "ariaPressed" \in DOMAIN element.attrs
        ELSE IF Truthy(renderProps.href) /\ ~renderProps.disabled
        THEN /\ element.component = "a"
             /\ HasAttr("href", renderProps.href)
        ELSE /\ element.component = "button"
             /\ HasAttr("disabled", renderProps.disabled)
             /\ HasAttr("type", renderProps.type)

C3_Witness ==
    /\ Rendered
    /\ renderProps.as = "CustomLink"
    /\ renderProps.href = "#"
    /\ ~renderProps.disabled
    /\ element.component = "CustomLink"
    /\ Attr("href") = "#"

(* C4, as stated: every ghost, icon-only, selected configuration renders the *)
(* selected token and aria-pressed=true; aria-pressed is the selected flag   *)
(* when the button is icon-only and ghost, and null otherwise.               *)
C4_SelectedAndPressedEveryHost ==
    Rendered =>
        /\ (GhostIconOnly /\ renderProps.isSelected = "true")
               => /\ "btn--selected" \in element.attrs.className
                  /\ Attr("ariaPressed") = "true"
        /\ Unset(Attr("ariaPressed")) =
               Unset(IF GhostIconOnly THEN renderProps.isSelected ELSE "null")

(* C4, amended: the selected token is present exactly for ghost, icon-only,  *)
(* selected configurations; a host that is a native button or an as override *)
(* receives aria-pressed, the selected flag when icon-only and ghost and     *)
(* null otherwise; an anchor host receives no aria-pressed at all.           *)
C4_SelectedTokenAndPressedUnlessAnchor ==
    Rendered =>
        /\ ("btn--selected" \in element.attrs.className)
               <=> (GhostIconOnly /\ renderProps.isSelected = "true")
        /\ Attr("ariaPressed") =
               IF AnchorBranch THEN "absent"
               ELSE IF GhostIconOnly THEN renderProps.isSelected
               ELSE "null"

C4_Witness ==
    /\ Rendered
    /\ GhostIconOnly
    /\ renderProps.isSelected = "true"
    /\ element.component = "button"
    /\ "btn--selected" \in element.attrs.className
    /\ Attr("ariaPressed") = "true"

(* An absent value: not supplied, or supplied empty. *)
Absent(v) == v \in {"undefined", ""}

(* C10: validation returns an error exactly when an icon renderer is         *)
(* configured and children and iconDescription are both absent, and an error *)
(* does not keep the configuration from being rendered.                      *)
C10_ErrorIffIconWithoutText ==
    propTypesResult # "unchecked" =>
        /\ (propTypesResult = "Error")
               <=> /\ ~Absent(renderProps.renderIcon)
                   /\ Absent(renderProps.children)
                   /\ Absent(renderProps.iconDescription)
        /\ propTypesResult \in {"Error", "undefined"}
        /\ ENABLED Render

C10_Witness ==
    /\ propTypesResult = "Error"
    /\ renderProps.renderIcon = "Icon"
    /\ Rendered
    /\ element.component = "button"

----------------------------------------------------------------------------
(* Properties of the page (checked under Spec). *)

(* The tooltip of instance i shows: its node is tooltip--visible and not *)
(* tooltip--hidden.                                                      *)
TooltipVisible(i) ==
    /\ mounted[i]
    /\ props[i].hasIconOnly
    /\ "tooltip--visible" \in classList[i]
    /\ "tooltip--hidden" \notin classList[i]

(* C1: of two icon-only buttons at most one has a visible tooltip, after any *)
(* sequence of pointer, focus, key, timer and re-render events.              *)
C1_AtMostOneTooltipVisible ==
    \A a, b \in Instances : (a # b /\ TooltipVisible(a)) => ~TooltipVisible(b)

(* C5: after an Escape keydown every mounted instance has tooltipVisible and *)
(* hovered false, focused or not, hide timer pending or not.                 *)
C5_EscapeHidesEveryInstance ==
    last.op = "keydown-Escape" =>
        \A i \in Instances :
            mounted[i] => ~allowTooltipVisibility[i] /\ ~isHovered[i]

C5_Witness ==
    /\ last.op = "keydown-Escape"
    /\ \E i \in Instances : mounted[i] /\ isFocused[i]
    /\ \E t \in timers : t.live /\ mounted[t.inst] /\ ~isFocused[t.inst]

(* The step just taken ends the hover of i: a pointer-leave, blur or unmount *)
(* of i, or an Escape keydown.                                               *)
EndsHover(i) ==
    \/ last'.op \in {"mouseleave", "blur", "unmount"} /\ last'.inst = i
    \/ last'.op = "keydown-Escape"

(* C6: a pointer-leave hides nothing by itself; while the pointer is over an *)
(* instance no hide scheduled by an earlier leave is pending; and once the   *)
(* pointer has entered, tooltipVisible and hovered stay true until a later   *)
(* leave, blur or Escape.                                                    *)
C6_EnterSupersedesHide ==
    [][\A i \in Instances :
          /\ (last'.op = "mouseleave" /\ last'.inst = i)
                 => /\ isHovered'[i] = isHovered[i]
                    /\ allowTooltipVisibility'[i] = allowTooltipVisibility[i]
          /\ (mounted[i] /\ pointerAt = i)
                 => ~\E t \in timers : t.inst = i /\ t.live
          /\ (/\ mounted[i] /\ pointerAt = i
              /\ isHovered[i] /\ allowTooltipVisibility[i]
              /\ ~EndsHover(i))
                 => isHovered'[i] /\ allowTooltipVisibility'[i]]_vars

(* C7: the hide timer's callback never runs once its instance is unmounted. *)
C7_TimerNeverRunsAfterUnmount ==
    last.op = "timeout" => last.live

(* C8: every mounted instance has exactly one keydown listener registered *)
(* on the document and an unmounted one has none.                         *)
C8_OneListenerPerMountedInstance ==
    \A i \in Instances : listeners[i] = IF mounted[i] THEN 1 ELSE 0

C8_Witness ==
    /\ last.op = "unmount"
    /\ \E i \in Instances : mounted[i] /\ listeners[i] = 1
    /\ listeners[last.inst] = 0

(* The internal handler of each composed event. *)
InternalHandler(op) ==
    CASE op = "mouseenter" -> "handleMouseEnter"
      [] op = "mouseleave" -> "handleMouseLeave"
      [] op = "focus" -> "handleFocus"
      [] op = "blur" -> "handleBlur"

(* C9: for pointer-enter, pointer-leave, focus and blur a supplied callback *)
(* runs first and the internal handler runs after it; the internal handler  *)
(* runs, with its effect, whether or not a callback was supplied.           *)
C9_CallerThenInternalHandler ==
    last.op \in {"mouseenter", "mouseleave", "focus", "blur"} =>
        /\ last.calls = IF last.supplied # "undefined"
                        THEN <<last.supplied, InternalHandler(last.op)>>
                        ELSE <<InternalHandler(last.op)>>
        /\ last.op = "mouseenter" =>
               isHovered[last.inst] /\ allowTooltipVisibility[last.inst]
        /\ last.op = "mouseleave" =>
               \/ isFocused[last.inst]
               \/ \E t \in timers : /\ t.inst = last.inst
                                    /\ t.id = tooltipTimeout[last.inst]
        /\ last.op = "focus" => isFocused[last.inst]
        /\ last.op = "blur" =>
               ~isFocused[last.inst] /\ ~allowTooltipVisibility[last.inst]

C9_Witness ==
    /\ last.op = "focus"
    /\ last.supplied = "onFocus"
    /\ last.calls = <<"onFocus", "handleFocus">>
    /\ isFocused[last.inst]

(* C11: after a focus event is handled on an instance, from any prior state *)
(* (the instance already hovered included), it is hovered, focused and its  *)
(* tooltip visible, the other tooltips having been closed.                  *)
C11_FocusSetsHoveredFocusedVisible ==
    last.op = "focus" =>
        /\ isHovered[last.inst]
        /\ isFocused[last.inst]
        /\ allowTooltipVisibility[last.inst]
        /\ \A j \in Instances \ {last.inst} :
               "tooltip--a11y" \in classList[j] => "tooltip--hidden" \in classList[j]

(* C12: a blur sets hovered, focused and tooltipVisible false in the same *)
(* step and schedules no timer.                                           *)
C12_BlurHidesImmediately ==
    [][(last'.op = "blur") =>
          /\ ~isHovered'[last'.inst]
          /\ ~isFocused'[last'.inst]
          /\ ~allowTooltipVisibility'[last'.inst]
          /\ timers' = timers
          /\ tooltipTimeout' = tooltipTimeout]_vars

C12_Witness ==
    /\ last.op = "blur"
    /\ pointerAt = last.inst
    /\ props[last.inst].hasIconOnly
    /\ "tooltip--hidden" \in classList[last.inst]
    /\ ~isHovered[last.inst] /\ ~isFocused[last.inst]
    /\ ~allowTooltipVisibility[last.inst]

(* The pending hide timers of the mounted instance i. *)
LiveTimers(i) == {t \in timers : t.inst = i /\ t.live}

(* C13: a mounted instance has at most one pending hide timer, it is the one *)
(* whose id tooltipTimeout holds, and a pointer-enter leaves none pending.   *)
C13_OnePendingCancellableTimer ==
    \A i \in Instances :
        mounted[i] =>
            /\ Cardinality(LiveTimers(i)) <= 1
            /\ \A t \in LiveTimers(i) : t.id = tooltipTimeout[i]
            /\ (last.op \in {"mouseenter", "mouseenter-text"} /\ last.inst = i)
                   => LiveTimers(i) = {}

C13_Witness ==
    /\ last.op = "mouseleave"
    /\ mounted[last.inst]
    /\ \E t \in LiveTimers(last.inst) : t.id = tooltipTimeout[last.inst]
    /\ \E j \in Instances \ {last.inst} : LiveTimers(j) # {}

(* Whether the node of j carries tooltip--hidden. *)
Hidden(cl, j) == "tooltip--hidden" \in cl[j]

(* C15: a pointer-enter sets hovered and tooltipVisible and leaves no hide   *)
(* timer pending; when it targets the tooltip text node the hidden-class of  *)
(* every other button is unchanged, and when it targets anything else every  *)
(* other icon-only button gets the hidden-class.                             *)
C15_EnterOnTooltipTextClosesNothing ==
    [][(last'.op \in {"mouseenter", "mouseenter-text"}) =>
          /\ isHovered'[last'.inst]
          /\ allowTooltipVisibility'[last'.inst]
          /\ ~\E t \in timers' : t.inst = last'.inst /\ t.live
          /\ last'.target = "tooltip" =>
                 \A j \in Instances \ {last'.inst} :
                     Hidden(classList', j) = Hidden(classList, j)
          /\ last'.target = "button" =>
                 \A j \in Instances \ {last'.inst} :
                     "tooltip--a11y" \in classList[j] => Hidden(classList', j)]_vars

C15_Witness ==
    /\ last.op = "mouseenter"
    /\ last.target = "tooltip"
    /\ tooltipTimeout[last.inst] # 0
    /\ \E j \in Instances \ {last.inst} :
           /\ mounted[j] /\ props[j].hasIconOnly
           /\ ~Hidden(classList, j)

(* C16: a pointer-enter or focus handled on a button that is not icon-only *)
(* leaves the hidden-class of every icon-only button unchanged.            *)
C16_PlainButtonClosesNoTooltip ==
    [][(/\ last'.op \in {"mouseenter", "focus"}
        /\ ~props[last'.inst].hasIconOnly)
           => \A j \in Instances :
                  (mounted[j] /\ props[j].hasIconOnly)
                      => Hidden(classList', j) = Hidden(classList, j)]_vars

(* The tooltip tokens a class set may carry. *)
TooltipTokens ==
    {"tooltip--hidden", "tooltip--visible"}
    \cup {"tooltip--" \o pos : pos \in {"top", "right", "bottom", "left"}}
    \cup {"tooltip--align-" \o al : al \in {"start", "center", "end"}}

(* C17: the class set of a button that is not icon-only holds no tooltip *)
(* token, and that of an icon-only button holds the hidden token exactly *)
(* when tooltipVisible is false.                                         *)
C17_TooltipTokensOnlyWhenIconOnly ==
    \A i \in Instances :
        mounted[i] =>
            IF props[i].hasIconOnly
            THEN ("tooltip--hidden" \in ClassName(i)) <=> ~allowTooltipVisibility[i]
            ELSE ClassName(i) \cap TooltipTokens = {}

(* The step just taken is a blur or unmount of i, or an Escape keydown. *)
EndsFocus(i) ==
    \/ last'.op \in {"blur", "unmount"} /\ last'.inst = i
    \/ last'.op = "keydown-Escape"

(* C18: while an instance is focused only a blur or an Escape keydown sets *)
(* tooltipVisible or hovered false, and a pointer-leave schedules nothing. *)
C18_FocusedHiddenOnlyByBlurOrEscape ==
    [][\A i \in Instances :
          (mounted[i] /\ isFocused[i] /\ ~EndsFocus(i)) =>
              /\ allowTooltipVisibility[i] => allowTooltipVisibility'[i]
              /\ isHovered[i] => isHovered'[i]
              /\ (last'.op = "mouseleave" /\ last'.inst = i) => timers' = timers]_vars

(* C19: a freshly mounted instance has tooltipVisible true, hovered and *)
(* focused false; in every state hovered implies tooltipVisible, so the *)
(* class set computed from the state never holds both the visible and   *)
(* the hidden token.                                                    *)
C19_HoveredImpliesTooltipVisible ==
    \A i \in Instances :
        mounted[i] =>
            /\ isHovered[i] => allowTooltipVisibility[i]
            /\ ~({"tooltip--visible", "tooltip--hidden"} \subseteq ClassName(i))
            /\ (last.op = "mount" /\ last.inst = i) =>
                   /\ allowTooltipVisibility[i]
                   /\ ~isHovered[i]
                   /\ ~isFocused[i]

C19_Witness ==
    /\ last.op = "focus"
    /\ props[last.inst].hasIconOnly
    /\ isHovered[last.inst]
    /\ allowTooltipVisibility[last.inst]
    /\ "tooltip--visible" \in ClassName(last.inst)
    /\ tooltipTimeout[last.inst] # 0

(* An event was just delivered to instance i: a pointer or focus event on *)
(* it, or a keydown on the document.                                      *)
Delivered(i) ==
    \/ /\ last.op \in {"mouseenter", "mouseenter-text", "focus", "blur"}
       /\ last.inst = i
    \/ last.op \in {"keydown-Escape", "keydown-Enter"}

(* C14: once the pointer has left a mounted, unfocused instance, eventually *)
(* its tooltipVisible and hovered are false, unless a further pointer,      *)
(* focus or key event is delivered to it or it is unmounted first.          *)
C14_LeaveEventuallyHides ==
    \A i \in Instances :
        (last.op = "mouseleave" /\ last.inst = i /\ mounted[i] /\ ~isFocused[i])
            ~> \/ ~allowTooltipVisibility[i] /\ ~isHovered[i]
               \/ Delivered(i)
               \/ ~mounted[i]

C14_Witness ==
    /\ last.op = "timeout"
    /\ last.live
    /\ mounted[last.inst]
    /\ pointerAt # last.inst
    /\ ~allowTooltipVisibility[last.inst]
    /\ ~isHovered[last.inst]
    /\ "tooltip--hidden" \in classList[last.inst]

====
